---- MODULE Spec2Model ----
(***************************************************************************)
(* Route discovery (packages/core/routesConvention.ts), configuration      *)
(* resolution (packages/core/config.ts) and the build orchestrator.        *)
(*                                                                         *)
(* JavaScript strings are sequences of one-character strings, so that      *)
(* startsWith, slice, replace and the regular expressions are computed     *)
(* character by character.                                                 *)
(***************************************************************************)
EXTENDS Integers, Sequences, FiniteSets, TLC

VARIABLES
    fnName,         \* pure-function harness: the function under call
    fnArgs,         \* its arguments
    fnRet,          \* its return value
    fnPc,           \* "ready" | "returned"
    appFiles,       \* files below <appDir>/routes, relative to that directory
    rootFiles,      \* files directly in <appDir> (root.*, entry.*)
    hasRoutes,      \* appConfig.routes is defined
    pc,             \* position inside readConfig
    routes,         \* readConfig's `routes` array (the route tree)
    routeManifest,  \* readConfig's `routeManifest`
    error,          \* the Error thrown, "none" when nothing was thrown
    target,         \* build(): BuildOptions.target
    mode,           \* build(): BuildOptions.mode
    bpc,            \* position inside build()
    input,          \* the InputOption handed to the engine
    engine,         \* the bundling engine's progress for this request
    build,          \* the RemixBuild that build() returned
    outputs,        \* the generate/write calls made on the build, oldest first
    callbacks,      \* watch(): which of onBuildStart, onBuildEnd, onError are supplied
    wpc,            \* position of the watcher: "ready" | "watching" | "closed"
    emitted,        \* the events the engine's watcher has emitted, oldest first
    calls           \* the callback invocations made by watch(), oldest first

fnVars == <<fnName, fnArgs, fnRet, fnPc>>
cfgVars == <<appFiles, rootFiles, hasRoutes, pc, routes, routeManifest, error>>
outVars == <<build, outputs>>
watchVars == <<callbacks, wpc, emitted, calls>>
buildVars == <<target, mode, bpc, input, engine, build, outputs, callbacks, wpc, emitted,
               calls>>
vars == <<fnName, fnArgs, fnRet, fnPc, appFiles, rootFiles, hasRoutes, pc, routes,
          routeManifest, error, target, mode, bpc, input, engine, build, outputs,
          callbacks, wpc, emitted, calls>>

----------------------------------------------------------------------------
(* Bounds of the model *)

\* pieces concatenated to form an input of createRoutePath
MaxPieces == 3
\* length of the routeIds array given to findParentRouteId
MaxIds == 4
\* pieces concatenated to form a module id given to the external predicate
MaxIdPieces == 3
\* files below <appDir>/routes
MaxFiles == 3
\* defineRoute calls made by the user's routes callback
MaxManual == 2
\* generate/write calls made on one build
MaxOutputs == 2
\* events emitted by the engine's watcher
MaxEvents == 3

----------------------------------------------------------------------------
(* String literals *)

Undefined == <<"undefined">>

S_routes == <<"r","o","u","t","e","s">>
S_index == <<"i","n","d","e","x">>
S_gists == <<"g","i","s","t","s">>
S_username == <<"$","u","s","e","r","n","a","m","e">>
S_about == <<"a","b","o","u","t">>
S_us == <<"u","s">>
S_foo == <<"f","o","o">>
S_bar == <<"b","a","r">>
S_react == <<"r","e","a","c","t">>
S_fs == <<"f","s">>
Slash == <<"/">>
Dot == <<".">>
Dollar == <<"$">>
Dash == <<"-">>

Letters == {"a","b","c","d","e","f","g","h","i","j","k","l","m","n","o","p","q",
            "r","s","t","u","v","w","x","y","z"}
Digits == {"0","1","2","3","4","5","6","7","8","9"}

----------------------------------------------------------------------------
(* String primitives of the JavaScript runtime, as the code uses them *)

\* String.prototype.startsWith
startsWith(s, prefix) ==
    /\ Len(prefix) <= Len(s)
    /\ SubSeq(s, 1, Len(prefix)) = prefix

\* the suffix test behind a `$`-anchored pattern
endsWith(s, suffix) ==
    /\ Len(suffix) <= Len(s)
    /\ SubSeq(s, Len(s) - Len(suffix) + 1, Len(s)) = suffix

\* String.prototype.slice(start), start counted from 0
slice(s, start) == SubSeq(s, start + 1, Len(s))

\* String.prototype.replace(/c/g, by) for a one-character pattern
replaceAll(s, c, by) == [i \in 1..Len(s) |-> IF s[i] = c THEN by ELSE s[i]]

\* \w of a regular expression
isWordChar(c) == c \in Letters \cup Digits \cup {"_"}

\* \b at offset i (between s[i] and s[i+1]; i = 0 is the start of s)
wordBoundary(s, i) ==
    LET before == i >= 1 /\ isWordChar(s[i])
        after == i + 1 <= Len(s) /\ isWordChar(s[i + 1])
    IN  before # after

----------------------------------------------------------------------------
(* createRoutePath *)

\* a faulty variant: the test without its leading \b
testIndexNoBoundary(path) ==
    \E i \in 0..Len(path) :
        \/ slice(path, i) = S_index
        \/ slice(path, i) = Slash \o S_index

\* /\b\/?index$/.test(path)
testIndex(path) ==
    \E i \in 0..Len(path) :
        /\ wordBoundary(path, i)
        /\ \/ slice(path, i) = S_index
           \/ slice(path, i) = Slash \o S_index

\* path.replace(/\/?index$/, ""): the leftmost match is removed
replaceIndex(path) ==
    IF endsWith(path, Slash \o S_index) THEN SubSeq(path, 1, Len(path) - 6)
    ELSE IF endsWith(path, S_index) THEN SubSeq(path, 1, Len(path) - 5)
    ELSE path

createRoutePath(routeId) ==
    LET path == replaceAll(replaceAll(routeId, "$", ":"), ".", "/")
    IN  IF testIndex(path) THEN replaceIndex(path) ELSE path

----------------------------------------------------------------------------
(* findParentRouteId *)

byShortestFirst(a, b) == Len(a) - Len(b)

byLongestFirst(a, b) == Len(b) - Len(a)

\* Array.prototype.sort(byLongestFirst) on a copy: a stable sort
sortByLongestFirst(routeIds) ==
    LET n == Len(routeIds)
        before(j, i) ==
            \/ byLongestFirst(routeIds[j], routeIds[i]) < 0
            \/ byLongestFirst(routeIds[j], routeIds[i]) = 0 /\ j < i
        rank(i) == 1 + Cardinality({j \in 1..n : before(j, i)})
    IN  [k \in 1..n |-> routeIds[CHOOSE i \in 1..n : rank(i) = k]]

\* a faulty variant: startsWith(id) without the `/` after the id
findParentRouteIdNoSlash(routeIds, childRouteId) ==
    LET sorted == sortByLongestFirst(routeIds)
        hits == {i \in 1..Len(sorted) : startsWith(childRouteId, sorted[i])}
    IN  IF hits = {} THEN Undefined
        ELSE sorted[CHOOSE i \in hits : \A j \in hits : i <= j]

\* Array.prototype.find: the first element satisfying the test, else undefined
findParentRouteId(routeIds, childRouteId) ==
    LET sorted == sortByLongestFirst(routeIds)
        hits == {i \in 1..Len(sorted) : startsWith(childRouteId, sorted[i] \o Slash)}
    IN  IF hits = {} THEN Undefined
        ELSE sorted[CHOOSE i \in hits : \A j \in hits : i <= j]

----------------------------------------------------------------------------
(* getExternalOption *)

Server == "server"
Browser == "browser"
Production == "production"
Development == "development"

\* path.isAbsolute of the POSIX path module
isAbsolute(id) == Len(id) > 0 /\ id[1] = "/"

isLocalModuleIdRelativeOnly(id) == startsWith(id, Dot)

isLocalModuleId(id) == startsWith(id, Dot) \/ isAbsolute(id)

importHints == << <<"c","s","s",":">>, <<"i","m","g",":">>, <<"u","r","l",":">> >>

isImportHint(id) == \E k \in 1..Len(importHints) : startsWith(id, importHints[k])

\* packages never bundled for the browser (./compiler/browserIgnore)
ignorePackages == {S_fs}

\* getExternalOption(target) applied to a module id
getExternalOption(t, id) ==
    IF t = Server THEN ~isLocalModuleId(id) /\ ~isImportHint(id)
    ELSE id \in ignorePackages

----------------------------------------------------------------------------
(* Files and the path module *)

E_tsx == <<".","t","s","x">>
E_ts == <<".","t","s">>
E_jsx == <<".","j","s","x">>
E_js == <<".","j","s">>
E_md == <<".","m","d">>
E_mdx == <<".","m","d","x">>
E_css == <<".","c","s","s">>
E_txt == <<".","t","x","t">>
S_root == <<"r","o","o","t">>

\* the character codes strcmp compares
CharCode(c) ==
    LET lower == <<"a","b","c","d","e","f","g","h","i","j","k","l","m","n","o","p",
                   "q","r","s","t","u","v","w","x","y","z">>
        digit == <<"0","1","2","3","4","5","6","7","8","9">>
    IN  IF c \in Letters THEN 96 + (CHOOSE k \in 1..26 : lower[k] = c)
        ELSE IF c \in Digits THEN 47 + (CHOOSE k \in 1..10 : digit[k] = c)
        ELSE CASE c = "$" -> 36 [] c = "-" -> 45 [] c = "." -> 46 [] c = "/" -> 47
               [] c = ":" -> 58 [] c = "_" -> 95 [] OTHER -> 0

\* a sorts before b
lessThan(a, b) ==
    LET n == IF Len(a) < Len(b) THEN Len(a) ELSE Len(b)
        diff == {i \in 1..n : a[i] # b[i]}
        first == CHOOSE i \in diff : \A j \in diff : i <= j
    IN  IF diff = {} THEN Len(a) < Len(b)
        ELSE CharCode(a[first]) < CharCode(b[first])

\* the offset of the last `/` of a path, 0 when it has none
lastSlash(file) ==
    LET at == {i \in 1..Len(file) : file[i] = "/"}
    IN  IF at = {} THEN 0 ELSE CHOOSE i \in at : \A j \in at : j <= i

\* path.extname: from the last `.` of the base name, "" when the base name
\* has no `.` or only a leading one
extname(file) ==
    LET base == lastSlash(file)
        dots == {i \in (base + 1)..Len(file) : file[i] = "."}
        last == CHOOSE i \in dots : \A j \in dots : j <= i
    IN  IF dots = {} \/ last = base + 1 THEN <<>> ELSE SubSeq(file, last, Len(file))

\* path.join(dir, file)
join(dir, file) == dir \o Slash \o file

\* createRouteId (./routes): the file path with its extension stripped
createRouteId(file) == SubSeq(file, 1, Len(file) - Len(extname(file)))

\* isModuleFile (./rollup/routeModules)
isModuleFile(file) == extname(file) \in {E_md, E_mdx, E_js, E_jsx, E_ts, E_tsx}

\* isStylesFile (./rollup/styles)
isStylesFile(file) == extname(file) = E_css

----------------------------------------------------------------------------
(* visitFiles: the files below a directory, in the order they are visited *)

\* the first path component of a relative path
firstSegment(rel) ==
    LET at == {i \in 1..Len(rel) : rel[i] = "/"}
    IN  IF at = {} THEN rel ELSE SubSeq(rel, 1, (CHOOSE i \in at : \A j \in at : i <= j) - 1)

\* a set of strings as the array sorted by name
RECURSIVE sortedNames(_)
sortedNames(names) ==
    IF names = {} THEN <<>>
    ELSE LET least == CHOOSE a \in names : \A b \in names \ {a} : lessThan(a, b)
         IN  <<least>> \o sortedNames(names \ {least})

\* fs.readdirSync(dir): the entries of dir, sorted by name; dir is "" or ends in `/`
readdirSync(files, dir) ==
    sortedNames({firstSegment(slice(f, Len(dir))) : f \in {g \in files : startsWith(g, dir)}})

\* fs.lstatSync(file).isDirectory()
isDirectory(files, file) == \E f \in files : startsWith(f, file \o Slash)

RECURSIVE visitFiles(_, _)
RECURSIVE visitEntries(_, _, _, _)
\* the loop body of visitFiles for entries[k..]
visitEntries(files, dir, entries, k) ==
    IF k > Len(entries) THEN <<>>
    ELSE LET file == dir \o entries[k]
             here == IF isDirectory(files, file) THEN visitFiles(files, file \o Slash)
                     ELSE <<file>>
         IN  here \o visitEntries(files, dir, entries, k + 1)

\* the arguments of the visitor calls, in call order (paths relative to baseDir)
visitFiles(files, dir) == visitEntries(files, dir, readdirSync(files, dir), 1)

----------------------------------------------------------------------------
(* defineConventionalRoutes *)

\* the position of the key id in an insertion-ordered object, 0 when absent
indexOfKey(object, id) ==
    LET at == {i \in 1..Len(object) : object[i].id = id}
    IN  IF at = {} THEN 0 ELSE CHOOSE i \in at : TRUE

\* Object.keys
keys(object) == [i \in 1..Len(object) |-> object[i].id]

\* the visitor of lines 64-76 applied to one file; acc is [routeFiles, err]
visitor(acc, file) ==
    LET id == createRouteId(join(S_routes, file))
        \* findOrCreateFiles
        created == IF indexOfKey(acc.routeFiles, id) = 0
                   THEN Append(acc.routeFiles,
                               [id |-> id, module |-> Undefined, styles |-> Undefined])
                   ELSE acc.routeFiles
        at == indexOfKey(created, id)
    IN  IF acc.err # "none" THEN acc
        ELSE IF isModuleFile(file)
        THEN [acc EXCEPT !.routeFiles = [created EXCEPT ![at].module = join(S_routes, file)]]
        ELSE IF isStylesFile(file)
        THEN [acc EXCEPT !.routeFiles = [created EXCEPT ![at].styles = join(S_routes, file)]]
        ELSE [routeFiles |-> created, err |-> "invalid_file"]

RECURSIVE visitAll(_, _, _)
visitAll(acc, visits, k) ==
    IF k > Len(visits) THEN acc ELSE visitAll(visitor(acc, visits[k]), visits, k + 1)

\* routeFiles after the visitFiles call of lines 64-76
collectRouteFiles(files) ==
    visitAll([routeFiles |-> <<>>, err |-> "none"], visitFiles(files, <<>>), 1)

\* Array.prototype.filter
RECURSIVE filterChildren(_, _, _)
filterChildren(routeIds, parentRouteId, k) ==
    IF k > Len(routeIds) THEN <<>>
    ELSE (IF findParentRouteId(routeIds, routeIds[k]) = parentRouteId
          THEN <<routeIds[k]>> ELSE <<>>)
         \o filterChildren(routeIds, parentRouteId, k + 1)

\* a faulty variant: the path is cut after "routes", whatever the parent
routePathFromRoutes(routeId, parentRouteId) ==
    createRoutePath(slice(routeId, Len(S_routes) + 1))

\* a faulty variant: the path is built from the last component of the id only
routePathLastComponent(routeId, parentRouteId) ==
    createRoutePath(slice(routeId, lastSlash(routeId)))

\* lines 46-48
routePath(routeId, parentRouteId) ==
    createRoutePath(slice(routeId,
        Len(IF parentRouteId = Undefined THEN S_routes ELSE parentRouteId) + 1))

\* defineRoute (./routes): a route nested under the route being defined.
\* A tree is the array of its nodes in depth-first order; `owner` is the
\* position of the node whose `children` holds this node, 0 at the top level.
defineRoute(nodes, path, moduleFile, stylesFile, owner) ==
    Append(nodes,
           [id |-> createRouteId(moduleFile), path |-> path, moduleFile |-> moduleFile,
            stylesFile |-> stylesFile,
            parentId |-> IF owner = 0 THEN Undefined ELSE nodes[owner].id,
            owner |-> owner])

\* a faulty variant: a route id without module is skipped
skipRoute(acc, routeId) == acc

\* lines 55-59
throwNoModule(acc, routeId) == [acc EXCEPT !.err = "styles_no_module"]

RECURSIVE defineNestedRoutes(_, _, _, _)
RECURSIVE defineChildRoutes(_, _, _, _, _, _)
\* a faulty variant: the children callback defines nothing
defineNestedRoutesShallow(routeFiles, parentRouteId, owner, acc) ==
    IF parentRouteId # Undefined THEN acc
    ELSE defineChildRoutes(routeFiles, filterChildren(keys(routeFiles), parentRouteId, 1), 1,
                           parentRouteId, owner, acc)

\* the loop of lines 45-60 for childRouteIds[k..]; acc is [nodes, err]
defineChildRoutes(routeFiles, childRouteIds, k, parentRouteId, owner, acc) ==
    IF k > Len(childRouteIds) \/ acc.err # "none" THEN acc
    ELSE LET routeId == childRouteIds[k]
             files == routeFiles[indexOfKey(routeFiles, routeId)]
             defined == [acc EXCEPT !.nodes =
                            defineRoute(acc.nodes, routePath(routeId, parentRouteId),
                                        files.module, files.styles, owner)]
             after == IF files.module # Undefined
                      THEN defineNestedRoutes(routeFiles, routeId, Len(defined.nodes), defined)
                      ELSE throwNoModule(acc, routeId)
         IN  defineChildRoutes(routeFiles, childRouteIds, k + 1, parentRouteId, owner, after)

defineNestedRoutes(routeFiles, parentRouteId, owner, acc) ==
    defineChildRoutes(routeFiles, filterChildren(keys(routeFiles), parentRouteId, 1), 1,
                      parentRouteId, owner, acc)

\* defineRoutes (./routes) applied to defineNestedRoutes
defineRoutesNested(routeFiles) ==
    defineNestedRoutes(routeFiles, Undefined, 0, [nodes |-> <<>>, err |-> "none"])

\* fs.existsSync for the files directly in appDir
existsSync(dirFiles, name) == name \in dirFiles

\* findRootRouteModule: the first existing of name.js, name.jsx, name.tsx
findRootRouteModule(dirFiles, name) ==
    LET potentialNames == <<name \o E_js, name \o E_jsx, name \o E_tsx>>
        found == {k \in 1..3 : existsSync(dirFiles, potentialNames[k])}
    IN  IF found = {} THEN Undefined
        ELSE potentialNames[CHOOSE k \in found : \A j \in found : k <= j]

\* a faulty variant: lines 85-87 left out
shallowParentIdUnset(node, id) == node

\* lines 85-87, for one node of the tree returned by defineRoutes
shallowParentId(node, id) ==
    IF node.owner = 0 THEN [node EXCEPT !.parentId = id] ELSE node

\* defineLayoutRoutes: [routes, err]
defineLayoutRoutes(routeFiles, dirFiles, layoutRouteName) ==
    LET id == <<"_","_">> \o layoutRouteName
        defined == defineRoutesNested(routeFiles)
        moduleFile == findRootRouteModule(dirFiles, layoutRouteName)
        root == [id |-> id, path |-> Slash, moduleFile |-> moduleFile,
                 stylesFile |-> Undefined, parentId |-> Undefined, owner |-> 0]
        children == [i \in 1..Len(defined.nodes) |->
                        [shallowParentId(defined.nodes[i], id)
                            EXCEPT !.owner = defined.nodes[i].owner + 1]]
    IN  IF defined.err # "none" THEN [routes |-> <<>>, err |-> defined.err]
        ELSE IF moduleFile = Undefined THEN [routes |-> <<>>, err |-> "no_root_module"]
        ELSE [routes |-> <<root>> \o children, err |-> "none"]

defineConventionalRoutes(layoutRouteId, files, dirFiles) ==
    LET visited == collectRouteFiles(files)
    IN  IF visited.err # "none" THEN [routes |-> <<>>, err |-> visited.err]
        ELSE defineLayoutRoutes(visited.routeFiles, dirFiles, layoutRouteId)

\* getConventionalRoutes (./routes)
getConventionalRoutes(files, dirFiles) == defineConventionalRoutes(S_root, files, dirFiles)

----------------------------------------------------------------------------
(* createRouteManifest *)

\* manifest[id] = rest
setKey(manifest, id, rest) ==
    IF indexOfKey(manifest, id) = 0 THEN Append(manifest, rest)
    ELSE [manifest EXCEPT ![indexOfKey(manifest, id)] = rest]

\* the positions of the nodes held by owner's `children` (the top level for 0)
RECURSIVE childrenOf(_, _, _)
childrenOf(tree, owner, k) ==
    IF k > Len(tree) THEN <<>>
    ELSE (IF tree[k].owner = owner THEN <<k>> ELSE <<>>) \o childrenOf(tree, owner, k + 1)

\* let { children, ...rest } = route
restOf(node) ==
    [id |-> node.id, path |-> node.path, moduleFile |-> node.moduleFile,
     stylesFile |-> node.stylesFile, parentId |-> node.parentId]

RECURSIVE manifestOf(_, _, _, _)
\* the loop of createRouteManifest over the array at[k..] of node positions
manifestOf(tree, at, k, manifest) ==
    IF k > Len(at) THEN manifest
    ELSE LET route == tree[at[k]]
             with == setKey(manifest, route.id, restOf(route))
             children == childrenOf(tree, at[k], 1)
             below == IF children # <<>> THEN manifestOf(tree, children, 1, with) ELSE with
         IN  manifestOf(tree, at, k + 1, below)

createRouteManifest(tree) == manifestOf(tree, childrenOf(tree, 0, 1), 1, <<>>)

----------------------------------------------------------------------------
(* Idle values of the state a specification does not use *)

IdleFn == fnName = "none" /\ fnArgs = <<>> /\ fnRet = Undefined /\ fnPc = "idle"

IdleCfg ==
    /\ appFiles = {} /\ rootFiles = {} /\ hasRoutes = FALSE /\ pc = "idle"
    /\ routes = <<>> /\ routeManifest = <<>> /\ error = "none"

\* no RemixBuild yet
NoBuild == [result |-> -1, options |-> [mode |-> "none", target |-> "none"]]

NoCallbacks == [onBuildStart |-> FALSE, onBuildEnd |-> FALSE, onError |-> FALSE]

IdleOut == build = NoBuild /\ outputs = <<>>

IdleWatch == callbacks = NoCallbacks /\ wpc = "idle" /\ emitted = <<>> /\ calls = <<>>

IdleBuild ==
    /\ target = Server /\ mode = Production /\ bpc = "idle"
    /\ input = <<>> /\ engine = "idle"
    /\ IdleOut /\ IdleWatch

\* every concatenation of at most n of the given pieces
RECURSIVE Compose(_, _)
Compose(pieces, n) ==
    IF n = 0 THEN {<<>>}
    ELSE LET shorter == Compose(pieces, n - 1)
         IN  shorter \cup {s \o p : s \in shorter, p \in pieces}

\* every array of at most n distinct elements of the given set
RECURSIVE Arrays(_, _)
Arrays(elements, n) ==
    IF n = 0 THEN {<<>>}
    ELSE LET shorter == Arrays(elements, n - 1)
             fresh(s) == {x \in elements : \A i \in 1..Len(s) : s[i] # x}
         IN  shorter \cup UNION {{Append(s, e) : e \in fresh(s)} : s \in shorter}

----------------------------------------------------------------------------
(* SpecPath: createRoutePath applied to bounded inputs *)

PathPieces == {S_index, Slash, Dot, Dollar, Dash, <<"x">>, <<"a","b">>}
PathExamples == {S_gists \o Slash \o S_username, S_about \o Dot \o S_us,
                 S_gists \o Slash \o S_index}
PathInputs == Compose(PathPieces, MaxPieces) \cup PathExamples

InitPath ==
    /\ fnName = "createRoutePath"
    /\ fnArgs \in {<<s>> : s \in PathInputs}
    /\ fnRet = Undefined
    /\ fnPc = "ready"
    /\ IdleCfg /\ IdleBuild

CallCreateRoutePath ==
    /\ fnName = "createRoutePath" /\ fnPc = "ready"
    /\ fnRet' = createRoutePath(fnArgs[1])
    /\ fnPc' = "returned"
    /\ UNCHANGED <<fnName, fnArgs, cfgVars, buildVars>>

NextPath == CallCreateRoutePath

SpecPath == InitPath /\ [][NextPath]_vars

----------------------------------------------------------------------------
(* SpecParent: findParentRouteId applied to bounded inputs *)

IdUniverse ==
    {S_routes,
     S_routes \o Slash \o S_gists,
     S_routes \o Slash \o S_gists \o Slash \o S_username,
     S_routes \o Slash \o S_about,
     S_routes \o Slash \o S_foo,
     S_routes \o Slash \o S_foo \o Dash \o S_bar,
     S_routes \o Slash \o S_foo \o Dash \o S_bar \o Slash \o <<"x">>,
     S_routes \o Slash \o <<"a">> \o Slash \o <<"b">>}

InitParent ==
    /\ fnName = "findParentRouteId"
    /\ fnArgs \in {<<ids, child>> : ids \in Arrays(IdUniverse, MaxIds), child \in IdUniverse}
    /\ fnRet = Undefined
    /\ fnPc = "ready"
    /\ IdleCfg /\ IdleBuild

CallFindParentRouteId ==
    /\ fnName = "findParentRouteId" /\ fnPc = "ready"
    /\ fnRet' = findParentRouteId(fnArgs[1], fnArgs[2])
    /\ fnPc' = "returned"
    /\ UNCHANGED <<fnName, fnArgs, cfgVars, buildVars>>

NextParent == CallFindParentRouteId

SpecParent == InitParent /\ [][NextParent]_vars

----------------------------------------------------------------------------
(* SpecExternal: the external predicate applied to bounded module ids *)

ModuleIdPieces == {Dot, Slash, importHints[1], importHints[2], importHints[3],
                   S_react, S_foo, S_fs}
ModuleIds == Compose(ModuleIdPieces, MaxIdPieces)

InitExternal ==
    /\ fnName = "getExternalOption"
    /\ fnArgs \in {<<t, id>> : t \in {Server, Browser}, id \in ModuleIds}
    /\ fnRet = Undefined
    /\ fnPc = "ready"
    /\ IdleCfg /\ IdleBuild

CallExternal ==
    /\ fnName = "getExternalOption" /\ fnPc = "ready"
    /\ fnRet' = getExternalOption(fnArgs[1], fnArgs[2])
    /\ fnPc' = "returned"
    /\ UNCHANGED <<fnName, fnArgs, cfgVars, buildVars>>

NextExternal == CallExternal

SpecExternal == InitExternal /\ [][NextExternal]_vars

----------------------------------------------------------------------------
(* readConfig *)

\* defineRoutes (./routes) applied to a user callback. The callback is the
\* array of its defineRoute calls in call order; `level` is the nesting depth
\* of the children callback a call is made in.
RECURSIVE defineRoutes(_, _, _)
defineRoutes(script, k, nodes) ==
    IF k > Len(script) THEN nodes
    ELSE LET call == script[k]
             above == {j \in 1..(k - 1) : script[j].level = call.level - 1}
             owner == IF call.level = 0 THEN 0
                      ELSE CHOOSE j \in above : \A i \in above : i <= j
         IN  defineRoutes(script, k + 1,
                          defineRoute(nodes, call.path, call.moduleFile, Undefined, owner))

\* routes.push(...manualRoutes)
push(tree, manualRoutes) ==
    tree \o [i \in 1..Len(manualRoutes) |->
                [manualRoutes[i] EXCEPT !.owner = IF @ = 0 THEN 0 ELSE @ + Len(tree)]]

\* lines 148-154 of readConfig up to the await of appConfig.routes, and to the
\* end of readConfig when appConfig.routes is not defined
ReadConfig ==
    /\ pc = "start"
    /\ LET conventional == getConventionalRoutes(appFiles, rootFiles)
       IN  IF conventional.err # "none"
           THEN /\ error' = conventional.err
                /\ pc' = "failed"
                /\ UNCHANGED <<routes, routeManifest>>
           ELSE IF hasRoutes
           THEN /\ routes' = conventional.routes
                /\ pc' = "await_routes"
                /\ UNCHANGED <<routeManifest, error>>
           ELSE /\ routes' = conventional.routes
                /\ routeManifest' = createRouteManifest(conventional.routes)
                /\ pc' = "done"
                /\ UNCHANGED error
    /\ UNCHANGED <<appFiles, rootFiles, hasRoutes, fnVars, buildVars>>

----------------------------------------------------------------------------
(* Spec: readConfig on bounded source trees and user route callbacks *)

S_pages == <<"p","a","g","e","s">>
S_one == <<"o","n","e">>
S_edit == <<"e","d","i","t">>
S_notes == <<"n","o","t","e","s">>

FileUniverse ==
    {S_index \o E_tsx,
     S_gists \o E_tsx,
     S_gists \o E_js,
     S_gists \o E_css,
     S_gists \o Slash \o S_index \o E_tsx,
     S_gists \o Slash \o S_username \o E_tsx,
     S_gists \o Slash \o S_username \o E_css,
     S_gists \o Slash \o S_username \o Slash \o S_edit \o E_tsx,
     <<"a">> \o Slash \o <<"b">> \o E_tsx,
     S_about \o Dot \o S_us \o E_tsx,
     S_about \o E_css,
     S_notes \o E_txt}

RootFileOptions == {{}, {S_root \o E_tsx}, {S_root \o E_js, S_root \o E_tsx}}

ManualCalls ==
    {[path |-> S_one, moduleFile |-> join(S_pages, S_one \o E_tsx)],
     [path |-> S_gists, moduleFile |-> join(S_routes, S_gists \o E_tsx)]}

\* the callbacks of at most n defineRoute calls
RECURSIVE Scripts(_)
Scripts(n) ==
    IF n = 0 THEN {<<>>}
    ELSE LET shorter == Scripts(n - 1)
             depth(s) == IF s = <<>> THEN 0 ELSE s[Len(s)].level + 1
             next(s) == {[path |-> c.path, moduleFile |-> c.moduleFile, level |-> l] :
                            c \in ManualCalls, l \in 0..depth(s)}
         IN  shorter \cup UNION {{Append(s, c) : c \in next(s)} :
                                   s \in {t \in shorter : Len(t) = n - 1}}

ManualScripts == Scripts(MaxManual)

\* the rest of readConfig, once the promise of appConfig.routes has resolved
ReadConfigResume ==
    /\ pc = "await_routes"
    /\ \E script \in ManualScripts :
          LET manualRoutes == defineRoutes(script, 1, <<>>)
              all == push(routes, manualRoutes)
          IN  /\ routes' = all
              /\ routeManifest' = createRouteManifest(all)
    /\ pc' = "done"
    /\ UNCHANGED <<appFiles, rootFiles, hasRoutes, error, fnVars, buildVars>>

Init ==
    /\ appFiles \in {files \in SUBSET FileUniverse : Cardinality(files) <= MaxFiles}
    /\ rootFiles \in RootFileOptions
    /\ hasRoutes \in BOOLEAN
    /\ pc = "start"
    /\ routes = <<>>
    /\ routeManifest = <<>>
    /\ error = "none"
    /\ IdleFn /\ IdleBuild

Next == ReadConfig \/ ReadConfigResume

Spec == Init /\ [][Next]_vars

----------------------------------------------------------------------------
(* The build orchestrator: build() *)

S_entryClient == <<"e","n","t","r","y",".","c","l","i","e","n","t">>
S_entryServer == <<"e","n","t","r","y",".","s","e","r","v","e","r">>

\* config.appDirectory of the modelled project
AppDirectory == <<"/","a","p","p">>

entryExts == <<E_js, E_jsx, E_ts, E_tsx>>

\* path.resolve(dir, file) for an absolute dir and a relative file
resolve(dir, file) == dir \o Slash \o file

\* findFile in config.appDirectory; dirFiles are the files directly in it
findFile(dirFiles, dir, basename, possibleExts) ==
    LET found == {k \in 1..Len(possibleExts) : existsSync(dirFiles, basename \o possibleExts[k])}
    IN  IF found = {} THEN Undefined
        ELSE resolve(dir, basename \o possibleExts[CHOOSE k \in found : \A j \in found : k <= j])

\* the loop of lines 389-395 over the manifest entries k..
RECURSIVE routeInputs(_, _, _)
routeInputs(manifest, k, inputs) ==
    IF k > Len(manifest) THEN inputs
    ELSE LET route == manifest[k]
         IN  routeInputs(manifest, k + 1,
                 IF route.moduleFile # Undefined
                 THEN setKey(inputs, route.id,
                             [id |-> route.id, file |-> resolve(AppDirectory, route.moduleFile)])
                 ELSE inputs)

\* the key of the entry for a target
entryKey(t) == IF t = Browser THEN S_entryClient ELSE S_entryServer

\* a faulty variant: a missing entry file is tolerated
getInputOptionNoThrow(dirFiles, manifest, t) ==
    LET entryFile == findFile(dirFiles, AppDirectory, entryKey(t), entryExts)
        entry == IF entryFile # Undefined
                 THEN <<[id |-> entryKey(t), file |-> entryFile]>> ELSE <<>>
    IN  [input |-> routeInputs(manifest, 1, entry), err |-> "none"]

\* getInputOption: [input, err]
getInputOption(dirFiles, manifest, t) ==
    LET entryFile == IF t = Browser
                     THEN findFile(dirFiles, AppDirectory, S_entryClient, entryExts)
                     ELSE IF t = Server
                     THEN findFile(dirFiles, AppDirectory, S_entryServer, entryExts)
                     ELSE Undefined
        entry == IF t \in {Browser, Server}
                 THEN <<[id |-> entryKey(t), file |-> entryFile]>> ELSE <<>>
    IN  IF t \in {Browser, Server} /\ entryFile = Undefined
        THEN [input |-> <<>>, err |-> "missing_entry"]
        ELSE [input |-> routeInputs(manifest, 1, entry), err |-> "none"]

\* build() up to its await: the plugins are created (getBuildPlugins wraps
\* getInputOption in the getInput callback of remixInputs without calling it)
\* and rollup.rollup() is called
Build ==
    /\ pc = "done" /\ bpc = "ready"
    /\ \E t \in {Browser, Server}, m \in {Production, Development} :
          /\ target' = t
          /\ mode' = m
    /\ engine' = "called"
    /\ bpc' = "await_rollup"
    /\ UNCHANGED <<input, cfgVars, fnVars, outVars, watchVars>>

\* the engine runs the options hook of remixInputs (./compiler/rollup/remixInputs),
\* which calls getInput(config)
EngineOptions ==
    /\ engine = "called"
    /\ LET got == getInputOption(rootFiles, routeManifest, target)
       IN  IF got.err # "none"
           THEN /\ engine' = "failed"
                /\ error' = got.err
                /\ UNCHANGED input
           ELSE /\ engine' = "bundling"
                /\ input' = got.input
                /\ UNCHANGED error
    /\ UNCHANGED <<target, mode, bpc, fnVars, appFiles, rootFiles, hasRoutes, pc, routes,
                   routeManifest, outVars, watchVars>>

\* the engine loads and bundles the inputs; it ends with a bundle or an error
EngineBundle ==
    /\ engine = "bundling"
    /\ \/ engine' = "done" /\ UNCHANGED error
       \/ engine' = "failed" /\ error' = "bundle_error"
    /\ UNCHANGED <<target, mode, bpc, input, fnVars, appFiles, rootFiles, hasRoutes, pc,
                   routes, routeManifest, outVars, watchVars>>

\* createBuild: the engine's result with the build options attached
createBuild(rollupBuild, options) == [result |-> rollupBuild, options |-> options]

\* build() after its await: createBuild, or the rejection of rollup.rollup()
BuildSettle ==
    /\ bpc = "await_rollup"
    /\ \/ /\ engine = "done"
          /\ bpc' = "returned"
          /\ build' = createBuild(0, [mode |-> mode, target |-> target])
       \/ /\ engine = "failed"
          /\ bpc' = "rejected"
          /\ UNCHANGED build
    /\ UNCHANGED <<target, mode, input, engine, cfgVars, fnVars, outputs, watchVars>>

----------------------------------------------------------------------------
(* generate() and write() *)

\* the placeholders of a file name pattern
P_name == "[name]"
P_hash == "[hash]"
P_extname == "[extname]"

\* a faulty variant: the hashed names depend on the mode alone
getOutputOptionsModeOnly(b) ==
    [format |-> IF b.options.target = Server THEN "cjs" ELSE "esm",
     exports |-> IF b.options.target = Server THEN "named" ELSE "undefined",
     assetFileNames |-> IF b.options.mode = Production
                        THEN <<P_name, "-", P_hash, P_extname>> ELSE <<P_name, P_extname>>,
     chunkFileNames |-> <<"_shared/", P_name, "-", P_hash, ".js">>,
     entryFileNames |-> IF b.options.mode = Production
                        THEN <<P_name, "-", P_hash, ".js">> ELSE <<P_name, ".js">>]

\* getOutputOptions: a file name pattern is the array of its literal parts and
\* placeholders
getOutputOptions(b) ==
    [format |-> IF b.options.target = Server THEN "cjs" ELSE "esm",
     exports |-> IF b.options.target = Server THEN "named" ELSE "undefined",
     assetFileNames |-> IF b.options.mode = Production /\ b.options.target = Browser
                        THEN <<P_name, "-", P_hash, P_extname>> ELSE <<P_name, P_extname>>,
     chunkFileNames |-> <<"_shared/", P_name, "-", P_hash, ".js">>,
     entryFileNames |-> IF b.options.mode = Production /\ b.options.target = Browser
                        THEN <<P_name, "-", P_hash, ".js">> ELSE <<P_name, ".js">>]

\* the directory given to write()
OutputDir == <<"/","a","p","p","/","b","u","i","l","d">>

\* generate(build): build.generate(getOutputOptions(build))
Generate ==
    /\ bpc = "returned" /\ Len(outputs) < MaxOutputs
    /\ outputs' = Append(outputs, [op |-> "generate", options |-> getOutputOptions(build),
                                    dir |-> Undefined])
    /\ UNCHANGED <<target, mode, bpc, input, engine, build, cfgVars, fnVars, watchVars>>

\* write(build, dir): build.write({ ...getOutputOptions(build), dir })
Write ==
    /\ bpc = "returned" /\ Len(outputs) < MaxOutputs
    /\ outputs' = Append(outputs, [op |-> "write", options |-> getOutputOptions(build),
                                    dir |-> OutputDir])
    /\ UNCHANGED <<target, mode, bpc, input, engine, build, cfgVars, fnVars, watchVars>>

----------------------------------------------------------------------------
(* SpecBuild: build() on bounded resolved configurations *)

BuildRouteFiles == {S_index \o E_tsx, S_gists \o E_tsx,
                    S_gists \o Slash \o S_username \o E_tsx}

BuildScripts ==
    {<<>>,
     <<[path |-> S_one, moduleFile |-> join(S_pages, S_one \o E_tsx), level |-> 0]>>,
     <<[path |-> S_one, moduleFile |-> S_entryClient \o E_tsx, level |-> 0]>>,
     <<[path |-> S_one, moduleFile |-> S_entryServer \o E_tsx, level |-> 0]>>}

EntryFileUniverse == {S_entryClient \o E_js, S_entryClient \o E_tsx,
                      S_entryServer \o E_js, S_entryServer \o E_tsx}

\* the configuration readConfig returns for a source tree and a routes callback
InitBuild ==
    /\ appFiles \in SUBSET BuildRouteFiles
    /\ \E entries \in SUBSET EntryFileUniverse : rootFiles = {S_root \o E_tsx} \cup entries
    /\ \E script \in BuildScripts :
          /\ hasRoutes = (script # <<>>)
          /\ routes = push(getConventionalRoutes(appFiles, rootFiles).routes,
                           defineRoutes(script, 1, <<>>))
    /\ routeManifest = createRouteManifest(routes)
    /\ pc = "done"
    /\ error = "none"
    /\ target = Server /\ mode = Production /\ bpc = "ready"
    /\ input = <<>> /\ engine = "idle"
    /\ IdleOut /\ IdleWatch
    /\ IdleFn

NextBuild == Build \/ EngineOptions \/ EngineBundle \/ BuildSettle \/ Generate \/ Write

SpecBuild == InitBuild /\ [][NextBuild]_vars

----------------------------------------------------------------------------
(* watch() *)

\* the codes of the events of the engine's watcher
EventCodes == {"START", "BUNDLE_START", "BUNDLE_END", "END", "ERROR"}

\* an invocation of a callback (or of console.error), with its argument
call(fn, err, b) == [fn |-> fn, error |-> err, build |-> b]

\* a faulty variant: an error is dropped when no onError is supplied
onEventNoLog(event, cbs, buildOptions) ==
    IF event.code = "ERROR"
    THEN IF cbs.onError THEN <<call("onError", event.payload, NoBuild)>> ELSE <<>>
    ELSE IF event.code = "BUNDLE_START"
    THEN IF cbs.onBuildStart THEN <<call("onBuildStart", -1, NoBuild)>> ELSE <<>>
    ELSE IF event.code = "BUNDLE_END"
    THEN IF cbs.onBuildEnd
         THEN <<call("onBuildEnd", -1, createBuild(event.payload, buildOptions))>>
         ELSE <<>>
    ELSE <<>>

\* the listener watch() registers with watcher.on("event", ...): the calls it
\* makes for one event; event.payload is event.error of an ERROR event and
\* event.result of a BUNDLE_END event
onEvent(event, cbs, buildOptions) ==
    IF event.code = "ERROR"
    THEN IF cbs.onError
         THEN <<call("onError", event.payload, NoBuild)>>
         ELSE <<call("console.error", event.payload, NoBuild)>>
    ELSE IF event.code = "BUNDLE_START"
    THEN IF cbs.onBuildStart THEN <<call("onBuildStart", -1, NoBuild)>> ELSE <<>>
    ELSE IF event.code = "BUNDLE_END"
    THEN IF cbs.onBuildEnd
         THEN <<call("onBuildEnd", -1, createBuild(event.payload, buildOptions))>>
         ELSE <<>>
    ELSE <<>>

\* watch(config, options): the defaults of mode and target, the plugins, the
\* call of rollup.watch and the registration of the listener
Watch ==
    /\ pc = "done" /\ wpc = "ready"
    /\ \E m \in {"undefined", Production, Development},
          t \in {"undefined", Browser, Server},
          cbs \in [onBuildStart : BOOLEAN, onBuildEnd : BOOLEAN, onError : BOOLEAN] :
          /\ mode' = IF m = "undefined" THEN Development ELSE m
          /\ target' = IF t = "undefined" THEN Browser ELSE t
          /\ callbacks' = cbs
    /\ engine' = "watching"
    /\ wpc' = "watching"
    /\ UNCHANGED <<bpc, input, outVars, emitted, calls, cfgVars, fnVars>>

\* the engine's watcher emits an event and the listener handles it
EngineEmit ==
    /\ wpc = "watching" /\ Len(emitted) < MaxEvents
    /\ \E code \in EventCodes :
          LET event == [code |-> code, payload |-> Len(emitted) + 1] IN
          /\ emitted' = Append(emitted, event)
          /\ calls' = calls \o onEvent(event, callbacks, [mode |-> mode, target |-> target])
    /\ UNCHANGED <<target, mode, bpc, input, engine, outVars, callbacks, wpc, cfgVars,
                   fnVars>>

\* the function watch() returns: watcher.close()
Close ==
    /\ wpc = "watching"
    /\ wpc' = "closed"
    /\ engine' = "closed"
    /\ UNCHANGED <<target, mode, bpc, input, outVars, callbacks, emitted, calls, cfgVars,
                   fnVars>>

\* the configuration readConfig returns for the conventional source tree
InitWatch ==
    /\ appFiles = BuildRouteFiles
    /\ rootFiles = {S_root \o E_tsx, S_entryClient \o E_js, S_entryServer \o E_js}
    /\ hasRoutes = FALSE
    /\ routes = getConventionalRoutes(appFiles, rootFiles).routes
    /\ routeManifest = createRouteManifest(routes)
    /\ pc = "done"
    /\ error = "none"
    /\ target = Server /\ mode = Production /\ bpc = "idle"
    /\ input = <<>> /\ engine = "idle"
    /\ IdleOut
    /\ callbacks = NoCallbacks /\ wpc = "ready" /\ emitted = <<>> /\ calls = <<>>
    /\ IdleFn

NextWatch == Watch \/ EngineEmit \/ Close

SpecWatch == InitWatch /\ [][NextWatch]_vars

----------------------------------------------------------------------------
(* Claims about the pure functions *)

\* the id with `$` and `.` rewritten, before any `index` handling
Rewritten(routeId) ==
    [i \in 1..Len(routeId) |->
        IF routeId[i] = "$" THEN ":" ELSE IF routeId[i] = "." THEN "/" ELSE routeId[i]]

\* s without its trailing `index` and without a `/` directly before it
WithoutTrailingIndex(s) ==
    LET n == Len(s) - 5
    IN  IF n >= 1 /\ s[n] = "/" THEN SubSeq(s, 1, n - 1) ELSE SubSeq(s, 1, n)

EndsInIndex(s) == Len(s) >= 5 /\ SubSeq(s, Len(s) - 4, Len(s)) = S_index

\* C4: findParentRouteId returns the longest id A of the array such that the
\* child starts with A + "/", and undefined when the array holds no such id.
C4_LongestPrefixParent ==
    (fnName = "findParentRouteId" /\ fnPc = "returned") =>
        LET ids == {fnArgs[1][i] : i \in 1..Len(fnArgs[1])}
            candidates == {a \in ids : startsWith(fnArgs[2], a \o Slash)}
        IN  IF candidates = {} THEN fnRet = Undefined
            ELSE /\ fnRet \in candidates
                 /\ \A a \in candidates : Len(a) <= Len(fnRet)

\* C4 witness: among routes, routes/gists, routes/gists/$username and
\* routes/about, the parent of routes/gists/$username is routes/gists.
C4_Witness ==
    /\ fnName = "findParentRouteId" /\ fnPc = "returned"
    /\ fnArgs[1] = <<S_routes, S_routes \o Slash \o S_gists,
                     S_routes \o Slash \o S_gists \o Slash \o S_username,
                     S_routes \o Slash \o S_about>>
    /\ fnArgs[2] = S_routes \o Slash \o S_gists \o Slash \o S_username
    /\ fnRet = S_routes \o Slash \o S_gists

\* C5 as stated: a trailing `index` is removed whenever the rewritten id ends
\* in `index`, whatever precedes it.
C5_AsStated ==
    (fnName = "createRoutePath" /\ fnPc = "returned") =>
        LET s == Rewritten(fnArgs[1])
        IN  fnRet = IF EndsInIndex(s) THEN WithoutTrailingIndex(s) ELSE s

\* C5 amended: createRoutePath rewrites `$` to `:` and `.` to `/`; the trailing
\* `index` (and a `/` directly before it) is removed only when the rewritten
\* id is exactly `index` or the character before `index` is not a word
\* character; otherwise (e.g. `xindex`) nothing else is changed.
C5_RoutePath ==
    (fnName = "createRoutePath" /\ fnPc = "returned") =>
        LET s == Rewritten(fnArgs[1])
            atBoundary ==
                /\ EndsInIndex(s)
                /\ Len(s) = 5 \/ s[Len(s) - 5] \notin Letters \cup Digits \cup {"_"}
        IN  fnRet = IF atBoundary THEN WithoutTrailingIndex(s) ELSE s

\* C5 witness: gists/index has become gists.
C5_Witness ==
    /\ fnName = "createRoutePath" /\ fnPc = "returned"
    /\ fnArgs[1] = S_gists \o Slash \o S_index
    /\ fnRet = S_gists

\* C8: for target=server a module id is external iff it does not start with
\* `.`, is not an absolute path and does not start with css:, img: or url:.
C8_ServerExternal ==
    (fnName = "getExternalOption" /\ fnPc = "returned" /\ fnArgs[1] = Server) =>
        LET id == fnArgs[2]
            first == IF Len(id) = 0 THEN "" ELSE id[1]
            hinted == /\ Len(id) >= 4
                      /\ SubSeq(id, 1, 4) \in {<<"c","s","s",":">>, <<"i","m","g",":">>,
                                               <<"u","r","l",":">>}
        IN  fnRet = (first # "." /\ first # "/" /\ ~hinted)

\* C8 witness: the bare package name react has been classified external.
C8_Witness ==
    /\ fnName = "getExternalOption" /\ fnPc = "returned"
    /\ fnArgs = <<Server, S_react>>
    /\ fnRet = TRUE

----------------------------------------------------------------------------
(* Claims about readConfig *)

RootId == <<"_","_","r","o","o","t">>
Id_gists == S_routes \o Slash \o S_gists
Id_username == S_routes \o Slash \o S_gists \o Slash \o S_username

\* the manifest of the conventional routes alone is in routeManifest
ConventionalDone == pc = "done" /\ ~hasRoutes

ManifestIds == {routeManifest[i].id : i \in 1..Len(routeManifest)}

EntryOf(id) == routeManifest[CHOOSE i \in 1..Len(routeManifest) : routeManifest[i].id = id]

\* id reaches the synthetic root in at most n parentId steps
RECURSIVE ReachesRoot(_, _)
ReachesRoot(id, n) ==
    \/ id = RootId
    \/ /\ n > 0
       /\ id \in ManifestIds
       /\ ReachesRoot(EntryOf(id).parentId, n - 1)

\* C1: when defineConventionalRoutes succeeds, every manifest entry other than
\* the synthetic root has a parentId that is a key of the manifest, and its
\* parentId chain reaches the synthetic root.
C1_ParentChain ==
    ConventionalDone =>
        /\ RootId \in ManifestIds
        /\ \A id \in ManifestIds \ {RootId} :
              /\ EntryOf(id).parentId \in ManifestIds
              /\ ReachesRoot(id, Len(routeManifest))

\* C1 witness: a manifest with a route two levels below the synthetic root and
\* a route whose directory has no route of its own.
C1_Witness ==
    /\ ConventionalDone
    /\ Id_username \in ManifestIds
    /\ EntryOf(Id_username).parentId = Id_gists
    /\ EntryOf(Id_gists).parentId = RootId
    /\ S_routes \o Slash \o <<"a">> \o Slash \o <<"b">> \in ManifestIds

\* C2 as stated: no two nodes of the final route tree have the same id.
C2_UniqueIds ==
    pc = "done" =>
        \A i, j \in 1..Len(routes) : routes[i].id = routes[j].id => i = j

\* the parent-to-child edges of the route tree, by containment
TreeEdges == {<<routes[routes[i].owner].id, routes[i].id>> :
                 i \in {k \in 1..Len(routes) : routes[k].owner # 0}}

\* the edges rebuilt from the parentId of the manifest entries
ManifestEdges == {<<routeManifest[i].parentId, routeManifest[i].id>> :
                     i \in {k \in 1..Len(routeManifest) :
                               routeManifest[k].parentId # Undefined}}

\* C3 as stated: the edges rebuilt from the manifest are the edges of the
\* tree, over the same nodes.
C3_RoundTrip ==
    pc = "done" =>
        /\ ManifestIds = {routes[i].id : i \in 1..Len(routes)}
        /\ Len(routeManifest) = Len(routes)
        /\ ManifestEdges = TreeEdges

\* some route id has a styles file and no module file
StylesWithoutModule(files) ==
    \E f \in files :
        /\ extname(f) = E_css
        /\ ~\E g \in files :
              /\ extname(g) \in {E_md, E_mdx, E_js, E_jsx, E_ts, E_tsx}
              /\ SubSeq(g, 1, Len(g) - Len(extname(g))) = SubSeq(f, 1, Len(f) - 4)

\* C6: when some route id has a styles file but no module file,
\* defineConventionalRoutes fails with an error and returns no route tree.
C6_StylesNeedModule ==
    (pc # "start" /\ StylesWithoutModule(appFiles)) =>
        /\ pc = "failed"
        /\ error # "none"
        /\ routes = <<>>

\* C6 witness: the styles file of a nested route without module, below a
\* route that has one, made defineNestedRoutes throw.
C6_Witness ==
    /\ pc = "failed"
    /\ appFiles = {S_gists \o E_tsx, S_gists \o Slash \o S_username \o E_css}
    /\ S_root \o E_tsx \in rootFiles
    /\ error = "styles_no_module"

\* the source tree of C7: root.tsx, routes/index.tsx, routes/gists.tsx,
\* routes/gists/$username.tsx, and no routes callback
C7_Tree ==
    /\ ConventionalDone
    /\ rootFiles = {S_root \o E_tsx}
    /\ appFiles = {S_index \o E_tsx, S_gists \o E_tsx,
                   S_gists \o Slash \o S_username \o E_tsx}

----------------------------------------------------------------------------
(* Claims about build() *)

InputKeys == {input[i].id : i \in 1..Len(input)}

InputOf(key) == input[CHOOSE i \in 1..Len(input) : input[i].id = key].file

\* the entry file of the requested target, Undefined when there is none
EntryFile ==
    LET base == IF target = Browser THEN S_entryClient ELSE S_entryServer
        exts == {k \in 1..4 : base \o entryExts[k] \in rootFiles}
    IN  IF exts = {} THEN Undefined
        ELSE AppDirectory \o Slash \o base \o entryExts[CHOOSE k \in exts : \A j \in exts : k <= j]

\* the manifest entries that have a moduleFile
WithModule == {i \in 1..Len(routeManifest) : routeManifest[i].moduleFile # Undefined}

\* C9 as stated: the input map holds the entry key mapped to the entry file,
\* one key per manifest entry with a moduleFile mapped to its module path, and
\* no other key.
C9_InputMap ==
    engine \in {"bundling", "done"} =>
        LET key == IF target = Browser THEN S_entryClient ELSE S_entryServer
        IN  /\ key \in InputKeys
            /\ InputOf(key) = EntryFile
            /\ \A i \in WithModule :
                  /\ routeManifest[i].id \in InputKeys
                  /\ routeManifest[i].id # key =>
                        InputOf(routeManifest[i].id) =
                            AppDirectory \o Slash \o routeManifest[i].moduleFile
            /\ InputKeys \ {key} \subseteq {routeManifest[i].id : i \in WithModule}
            /\ Len(input) = Cardinality(InputKeys)

\* build() has been called for a target whose entry file does not exist
MissingEntry == bpc # "ready" /\ EntryFile = Undefined

----------------------------------------------------------------------------
(* Claims about the conventional route tree *)

Id_foo == S_routes \o Slash \o S_foo
Id_fooBar == S_routes \o Slash \o S_foo \o Dash \o S_bar
Id_fooBarX == S_routes \o Slash \o S_foo \o Dash \o S_bar \o Slash \o <<"x">>
Id_ab == S_routes \o Slash \o <<"a">> \o Slash \o <<"b">>

LastComponent(id) ==
    LET at == {i \in 1..Len(id) : id[i] = "/"}
    IN  IF at = {} THEN id
        ELSE SubSeq(id, (CHOOSE i \in at : \A j \in at : j <= i) + 1, Len(id))

\* the conventional routes of the manifest (all entries but the synthetic root)
ConventionalEntries == {i \in 1..Len(routeManifest) : routeManifest[i].id # RootId}

DiscoveredIds ==
    {S_routes \o Slash \o SubSeq(f, 1, Len(f) - Len(extname(f))) : f \in appFiles}

\* every file is a module or styles file and every route id has a module
AllRoutesHaveModule ==
    /\ \A f \in appFiles : extname(f) \in {E_md, E_mdx, E_js, E_jsx, E_ts, E_tsx, E_css}
    /\ ~StylesWithoutModule(appFiles)

\* C15: when every file is a module or styles file and every route id has a
\* module, the recursion of defineNestedRoutes ends without error (only a
\* missing root module can make defineConventionalRoutes fail), and the tree
\* returned holds below the synthetic root each discovered route id exactly
\* once.
C15_EachIdOnce ==
    (pc # "start" /\ AllRoutesHaveModule) =>
        /\ pc = "failed" => error = "no_root_module" /\ findRootRouteModule(rootFiles, S_root) = Undefined
        /\ pc = "await_routes" \/ ConventionalDone =>
              /\ Len(routes) >= 1 /\ routes[1].id = RootId
              /\ \A id \in DiscoveredIds :
                    Cardinality({k \in 2..Len(routes) : routes[k].id = id}) = 1
              /\ \A k \in 2..Len(routes) : routes[k].id \in DiscoveredIds /\ routes[k].owner # 0

\* C15 witness: three discovered ids on three levels, each once in the tree.
C15_Witness ==
    /\ ConventionalDone
    /\ AllRoutesHaveModule
    /\ Cardinality(DiscoveredIds) = 3
    /\ Len(routes) = 4
    /\ \E k \in 2..Len(routes) : routes[k].owner > 1 /\ routes[routes[k].owner].owner > 1

----------------------------------------------------------------------------
(* Claims about the output options *)

\* the file name pattern has a content-hash placeholder
Hashed(pattern) == \E i \in 1..Len(pattern) : pattern[i] = "[hash]"

\* the build is the one kind whose entry and asset names are hashed
HashedProduction == build.options.target = Browser /\ build.options.mode = Production

\* C12 as stated: entry, asset and shared chunk file names alike carry a hash
\* exactly for target=browser with mode=production.
C12_AsStated ==
    \A i \in 1..Len(outputs) :
        /\ Hashed(outputs[i].options.entryFileNames) = HashedProduction
        /\ Hashed(outputs[i].options.assetFileNames) = HashedProduction
        /\ Hashed(outputs[i].options.chunkFileNames) = HashedProduction

\* C12 amended: entry and asset file names carry a hash exactly for
\* target=browser with mode=production and are hash-free for target=server
\* and for development; shared chunk file names carry a hash for every mode
\* and target.
C12_OutputNames ==
    \A i \in 1..Len(outputs) :
        /\ outputs[i].options.entryFileNames =
              IF HashedProduction THEN <<"[name]", "-", "[hash]", ".js">>
              ELSE <<"[name]", ".js">>
        /\ outputs[i].options.assetFileNames =
              IF HashedProduction THEN <<"[name]", "-", "[hash]", "[extname]">>
              ELSE <<"[name]", "[extname]">>
        /\ Hashed(outputs[i].options.chunkFileNames)

\* C12 witness: a production build for the server has been generated and
\* written with hash-free entry names.
C12_Witness ==
    /\ Len(outputs) = 2
    /\ outputs[1].op = "generate" /\ outputs[2].op = "write"
    /\ build.options = [mode |-> Production, target |-> Server]
    /\ ~Hashed(outputs[2].options.entryFileNames)

----------------------------------------------------------------------------
(* Claims about watch() *)

\* what the claim expects for the event emitted as number i
C11_Expected(i) ==
    LET code == emitted[i].code IN
    IF code = "BUNDLE_START" /\ callbacks.onBuildStart
    THEN <<[fn |-> "onBuildStart", error |-> -1, build |-> NoBuild]>>
    ELSE IF code = "BUNDLE_END" /\ callbacks.onBuildEnd
    THEN <<[fn |-> "onBuildEnd", error |-> -1,
            build |-> [result |-> emitted[i].payload,
                       options |-> [mode |-> mode, target |-> target]]]>>
    ELSE IF code = "ERROR"
    THEN <<[fn |-> IF callbacks.onError THEN "onError" ELSE "console.error",
            error |-> emitted[i].payload, build |-> NoBuild]>>
    ELSE <<>>

RECURSIVE C11_ExpectedUpTo(_)
C11_ExpectedUpTo(k) ==
    IF k = 0 THEN <<>> ELSE C11_ExpectedUpTo(k - 1) \o C11_Expected(k)

\* C11: in watch mode, at every moment the callback invocations made so far are
\* exactly those of the events emitted so far, in emission order, with nothing
\* reordered, held back, duplicated or lost: onBuildStart for BUNDLE_START,
\* onBuildEnd with a Build of the watch call's {mode, target} for BUNDLE_END,
\* onError (or console.error without onError) for ERROR; events after an ERROR
\* are dispatched like any other.
C11_EmissionOrder == calls = C11_ExpectedUpTo(Len(emitted))

\* C11 witness: with all three callbacks supplied, an ERROR was delivered and
\* the BUNDLE_START and BUNDLE_END emitted after it were delivered too.
C11_Witness ==
    /\ wpc = "watching"
    /\ callbacks = [onBuildStart |-> TRUE, onBuildEnd |-> TRUE, onError |-> TRUE]
    /\ Len(emitted) = 3
    /\ emitted[1].code = "ERROR"
    /\ emitted[2].code = "BUNDLE_START"
    /\ emitted[3].code = "BUNDLE_END"
    /\ Len(calls) = 3
    /\ calls[1].fn = "onError" /\ calls[2].fn = "onBuildStart"
    /\ calls[3].fn = "onBuildEnd"
    /\ calls[3].build.options = [mode |-> mode, target |-> target]

====
